---- MODULE Spec2Model ----
(***************************************************************************)
(* Order lifecycle of the restaurant API: the handlers of                  *)
(* application_server/src/handlers.rs over the four-table SQLite schema    *)
(* of application_server/src/lib.rs (tables, menus, orders, order_items).  *)
(* In Spec every handler is one atomic step (one request served on its own *)
(* connection, no other request in between); in SpecRace two requests run  *)
(* statement by statement, each storage call one step.  Storage calls fail *)
(* only for the constraint violations the schema defines; I/O faults of    *)
(* the driver are not modelled.                                            *)
(***************************************************************************)
EXTENDS Integers, Sequences, FiniteSets

VARIABLES tables, menus, orders, order_items, last, requests

vars == <<tables, menus, orders, order_items, last, requests>>

(***************************************************************************)
(* Bounds of the model.                                                    *)
(***************************************************************************)
\* longest menu_ids list of one request
MaxItems == 2
\* most units (the quantities of all lines together) the orders may hold
MaxUnits == 2
\* largest rowid an insert into orders or order_items may hand out
MaxRowid == 2

(***************************************************************************)
(* Program constants.                                                      *)
(***************************************************************************)
MinCookingTime == 5
MaxCookingTime == 15

\* gen_range(5..=15); the requests of the model draw the two ends of the
\* range and one even value
CookingTimeRange == MinCookingTime..MaxCookingTime
CookingTimes == {c \in CookingTimeRange : c \in {MinCookingTime, 6, MaxCookingTime}}

\* setup_static_data: the tables and menus every order test starts from
StaticTables == <<"T-01", "T-02", "T-03">>
StaticMenus == <<"M-01", "M-02", "M-03", "M-04", "M-05">>

\* request inputs: a registered table, two registered menus, and an id of no row
Codes == {"T-01", "T-02", "T-04"}
Names == {"M-01", "M-02", "M-06"}
TableIds == {1, 9}
MenuIds == {1, 2, 9}
MenuIdLists == UNION {[1..n -> MenuIds] : n \in 0..MaxItems}

NoId == 0

(***************************************************************************)
(* Storage: rowids and constraints of the schema.                          *)
(***************************************************************************)
SetMax(S) == CHOOSE x \in S : \A y \in S : y <= x

\* INTEGER PRIMARY KEY: a new row gets the largest rowid in use plus one
NextRowid(rows) == IF rows = {} THEN 1 ELSE SetMax({r.id : r \in rows}) + 1

\* the orders table without its foreign key (PRAGMA foreign_keys left off)
OrdersForeignKeyOff(tbls, table_id) == TRUE

\* PRAGMA foreign_keys = ON;
\* orders: FOREIGN KEY (table_id) REFERENCES tables(id)
OrdersForeignKeyOk(tbls, table_id) == \E t \in tbls : t.id = table_id

\* the orders table without UNIQUE (table_id)
OrdersUniqueOff(ords, table_id) == TRUE

\* orders: UNIQUE (table_id)
OrdersUniqueOk(ords, table_id) == \A o \in ords : o.table_id # table_id

\* the order_items table without its foreign keys
OrderItemsForeignKeyOff(mns, ords, order_id, menu_id) == TRUE

\* order_items: FOREIGN KEY (order_id) .. orders(id), (menu_id) .. menus(id)
OrderItemsForeignKeyOk(mns, ords, order_id, menu_id) ==
    /\ \E o \in ords : o.id = order_id
    /\ \E m \in mns : m.id = menu_id

(***************************************************************************)
(* Repository calls of the models module.                                  *)
(***************************************************************************)
\* Table::get_existing_table_id: ids of the tables with this code
Table_get_existing_table_id(tbls, code) == {t.id : t \in {x \in tbls : x.code = code}}

Table_create(tbls, code) == tbls \cup {[id |-> NextRowid(tbls), code |-> code]}

Menu_get_existing_menu_id(mns, name) == {m.id : m \in {x \in mns : x.name = name}}

Menu_create(mns, name) == mns \cup {[id |-> NextRowid(mns), name |-> name]}

\* OrderResponse::get_existing_order_id: ids of the orders of the table
get_existing_order_id(ords, table_id) ==
    {o.id : o \in {x \in ords : x.table_id = table_id}}

\* OrderResponse::create: insert the order, or the constraint that refuses it
OrderResponse_create(tbls, ords, table_id) ==
    IF ~OrdersForeignKeyOk(tbls, table_id)
    THEN [ok |-> FALSE, err |-> "FOREIGN KEY constraint failed",
          id |-> NoId, orders |-> ords]
    ELSE IF ~OrdersUniqueOk(ords, table_id)
    THEN [ok |-> FALSE,
          err |-> "UNIQUE constraint failed: orders.table_id",
          id |-> NoId, orders |-> ords]
    ELSE [ok |-> TRUE, err |-> "", id |-> NextRowid(ords),
          orders |-> ords \cup {[id |-> NextRowid(ords), table_id |-> table_id]}]

\* OrderItem::get_existing_order_item_id: the lines of the order for the menu;
\* when several rows match, the query may return any of them
get_existing_order_item_id(items, order_id, menu_id) ==
    {i.id : i \in {x \in items : x.order_id = order_id /\ x.menu_id = menu_id}}

\* OrderItem::add_quantity_of_existing_order_item: quantity += 1
add_quantity_of_existing_order_item(items, item_id) ==
    {IF i.id = item_id THEN [i EXCEPT !.quantity = i.quantity + 1] ELSE i :
        i \in items}

\* OrderItem::create: a new line with quantity 1
OrderItem_create(mns, ords, items, order_id, menu_id, cooking_time) ==
    IF ~OrderItemsForeignKeyOk(mns, ords, order_id, menu_id)
    THEN [ok |-> FALSE, order_items |-> items]
    ELSE [ok |-> TRUE,
          order_items |-> items \cup
              {[id |-> NextRowid(items), order_id |-> order_id,
                menu_id |-> menu_id, cooking_time |-> cooking_time,
                quantity |-> 1]}]

\* OrderResponse::has_items
has_items(items, order_id) == \E i \in items : i.order_id = order_id

(***************************************************************************)
(* Responses and the record of the last request served.                    *)
(***************************************************************************)
Reply(status, body, id) == [status |-> status, body |-> body, id |-> id]

Served(op, resp) == [op |-> op, resp |-> resp]

(***************************************************************************)
(* create_table_handler, create_menu_handler                               *)
(* Each handler yields the set of outcomes the request can have.           *)
(***************************************************************************)
create_table_handler(tbls, code) ==
    LET found == Table_get_existing_table_id(tbls, code) IN
    IF found # {}
    THEN {[tables |-> tbls, resp |-> Reply(201, "", id)] : id \in found}
    ELSE {[tables |-> Table_create(tbls, code),
           resp |-> Reply(201, "", NextRowid(tbls))]}

\* the handler creating the menu without looking its name up
create_menu_handler_NoLookup(mns, name) ==
    {[menus |-> Menu_create(mns, name),
      resp |-> Reply(201, "", NextRowid(mns))]}

create_menu_handler(mns, name) ==
    LET found == Menu_get_existing_menu_id(mns, name) IN
    IF found # {}
    THEN {[menus |-> mns, resp |-> Reply(201, "", id)] : id \in found}
    ELSE {[menus |-> Menu_create(mns, name),
           resp |-> Reply(201, "", NextRowid(mns))]}

(***************************************************************************)
(* create_order_handler                                                    *)
(***************************************************************************)
\* the loop over menu_ids when the table has a running order; the cooking
\* time drawn in every round is read only where a line is created
RECURSIVE ExistingOrderLoop(_, _, _, _)
ExistingOrderLoop(ords, items, order_id, menu_ids) ==
    IF menu_ids = <<>>
    THEN {[orders |-> ords, order_items |-> items,
           resp |-> Reply(200, "All order items updated successfully", NoId)]}
    ELSE LET found == get_existing_order_item_id(items, order_id, Head(menu_ids))
         IN IF found # {}
            THEN UNION {ExistingOrderLoop(
                            ords,
                            add_quantity_of_existing_order_item(items, item_id),
                            order_id, Tail(menu_ids)) :
                        item_id \in found}
            ELSE UNION {
                LET made == OrderItem_create(menus, ords, items, order_id,
                                             Head(menu_ids), cooking_time)
                IN IF made.ok
                   THEN ExistingOrderLoop(ords, made.order_items, order_id,
                                          Tail(menu_ids))
                   ELSE {[orders |-> ords, order_items |-> items,
                          resp |-> Reply(500, "Error creating order Item", NoId)]} :
                cooking_time \in CookingTimes}

\* the loop over menu_ids after a new order was inserted
RECURSIVE NewOrderLoop(_, _, _, _)
NewOrderLoop(ords, items, last_inserted_id, menu_ids) ==
    IF menu_ids = <<>>
    THEN {[orders |-> ords, order_items |-> items,
           resp |-> Reply(201, "Order and All Order Item Created Successfully",
                          last_inserted_id)]}
    ELSE UNION {
        LET made == OrderItem_create(menus, ords, items, last_inserted_id,
                                     Head(menu_ids), cooking_time)
        IN IF made.ok
           THEN NewOrderLoop(ords, made.order_items, last_inserted_id,
                             Tail(menu_ids))
           ELSE {[orders |-> ords, order_items |-> items,
                  resp |-> Reply(500, "Error creating order Item", NoId)]} :
        cooking_time \in CookingTimes}

\* the branch for a table with a running order, creating a line in every
\* round without looking for the line of the menu
ExistingOrderBranch_NoMerge(ords, items, order_id, menu_ids) ==
    {IF out.resp.status = 201
     THEN [out EXCEPT !.resp =
              Reply(200, "All order items updated successfully", NoId)]
     ELSE out :
        out \in NewOrderLoop(ords, items, order_id, menu_ids)}

\* the branch for a table with a running order, going on with the next
\* menu_id after a line could not be created
ExistingOrderBranch_ContinueAfterFailure(ords, items, order_id, menu_ids) ==
    LET created == SelectSeq(menu_ids, LAMBDA m : \E x \in menus : x.id = m)
    IN IF created = menu_ids
       THEN ExistingOrderLoop(ords, items, order_id, menu_ids)
       ELSE {IF out.resp.status = 200
             THEN [out EXCEPT !.resp =
                      Reply(500, "Error creating order Item", NoId)]
             ELSE out :
                out \in ExistingOrderLoop(ords, items, order_id, created)}

\* the branch for a table with a running order, writing the cooking time
\* drawn in the round to the line whose quantity it raises
ExistingOrderBranch_Reestimate(ords, items, order_id, menu_ids) ==
    UNION {{[out EXCEPT !.order_items =
                {IF \E i \in items : i.id = j.id /\ i.quantity # j.quantity
                 THEN [j EXCEPT !.cooking_time = cooking_time]
                 ELSE j : j \in out.order_items}] :
               cooking_time \in CookingTimes} :
           out \in ExistingOrderLoop(ords, items, order_id, menu_ids)}

\* the branch for a table with a running order, leaving a line it finds as
\* it is instead of raising its quantity
ExistingOrderBranch_SkipExisting(ords, items, order_id, menu_ids) ==
    ExistingOrderLoop(ords, items, order_id,
        SelectSeq(menu_ids,
            LAMBDA m : get_existing_order_item_id(items, order_id, m) = {}))

\* Ok(Some(order_id)): update the order items of the running order
ExistingOrderBranch(ords, items, order_id, menu_ids) ==
    ExistingOrderLoop(ords, items, order_id, menu_ids)

\* the branch for a table without a running order, answering 200 OK
NewOrderBranch_Ok200(ords, items, table_id, menu_ids) ==
    LET made == OrderResponse_create(tables, ords, table_id) IN
    IF made.ok
    THEN {IF out.resp.status = 201
          THEN [out EXCEPT !.resp = Reply(200, out.resp.body, out.resp.id)]
          ELSE out :
             out \in NewOrderLoop(made.orders, items, made.id, menu_ids)}
    ELSE {[orders |-> ords, order_items |-> items,
           resp |-> Reply(500, "Error creating order " \o made.err, NoId)]}

\* the branch for a table without a running order, taking the new order and
\* its lines back when a line could not be created
NewOrderBranch_Rollback(ords, items, table_id, menu_ids) ==
    LET made == OrderResponse_create(tables, ords, table_id) IN
    IF made.ok
    THEN {IF out.resp.status = 201
          THEN out
          ELSE [orders |-> ords, order_items |-> items, resp |-> out.resp] :
             out \in NewOrderLoop(made.orders, items, made.id, menu_ids)}
    ELSE {[orders |-> ords, order_items |-> items,
           resp |-> Reply(500, "Error creating order " \o made.err, NoId)]}

\* the branch for a table without a running order, passing over a menu_id
\* whose line cannot be created and answering for the rest
NewOrderBranch_IgnoreItemErrors(ords, items, table_id, menu_ids) ==
    LET made == OrderResponse_create(tables, ords, table_id) IN
    IF made.ok
    THEN NewOrderLoop(made.orders, items, made.id,
             SelectSeq(menu_ids, LAMBDA m : \E x \in menus : x.id = m))
    ELSE {[orders |-> ords, order_items |-> items,
           resp |-> Reply(500, "Error creating order " \o made.err, NoId)]}

\* Ok(None): create a new order and its order items
NewOrderBranch(ords, items, table_id, menu_ids) ==
    LET made == OrderResponse_create(tables, ords, table_id) IN
    IF made.ok
    THEN NewOrderLoop(made.orders, items, made.id, menu_ids)
    ELSE {[orders |-> ords, order_items |-> items,
           resp |-> Reply(500, "Error creating order " \o made.err, NoId)]}

\* the handler without the lookup of the running order
create_order_handler_NoLookup(ords, items, table_id, menu_ids) ==
    IF Len(menu_ids) = 0
    THEN {[orders |-> ords, order_items |-> items,
           resp |-> Reply(400, "Please Add Items", NoId)]}
    ELSE NewOrderBranch(ords, items, table_id, menu_ids)

\* the handler without the check of an empty menu_ids
create_order_handler_NoEmptyCheck(ords, items, table_id, menu_ids) ==
    LET found == get_existing_order_id(ords, table_id) IN
    IF found # {}
    THEN UNION {ExistingOrderBranch(ords, items, order_id, menu_ids) :
                   order_id \in found}
    ELSE NewOrderBranch(ords, items, table_id, menu_ids)

create_order_handler(ords, items, table_id, menu_ids) ==
    IF Len(menu_ids) = 0
    THEN {[orders |-> ords, order_items |-> items,
           resp |-> Reply(400, "Please Add Items", NoId)]}
    ELSE LET found == get_existing_order_id(ords, table_id) IN
         IF found # {}
         THEN UNION {ExistingOrderBranch(ords, items, order_id, menu_ids) :
                        order_id \in found}
         ELSE NewOrderBranch(ords, items, table_id, menu_ids)

(***************************************************************************)
(* delete_order_item_handler                                               *)
(***************************************************************************)
\* SELECT orders.id FROM orders JOIN tables ON orders.table_id = tables.id
\* WHERE tables.id = ?1
OrderIdsOfTable(ords, table_id) ==
    {o.id : o \in {x \in ords :
        x.table_id = table_id /\ \E t \in tables : t.id = table_id}}

\* the rows the UPDATE touches: the table's lines of the menu with quantity > 1
RowsToDecrease(ords, items, table_id, menu_id) ==
    {i \in items : /\ i.order_id \in OrderIdsOfTable(ords, table_id)
                   /\ i.menu_id = menu_id
                   /\ i.quantity > 1}

\* the share taken with the quantity after the decrement
DecreasedRow_NewQuantity(i) ==
    [i EXCEPT !.cooking_time =
                  i.cooking_time - (i.cooking_time \div (i.quantity - 1)),
              !.quantity = i.quantity - 1]

\* the share of one unit rounded up instead of down
DecreasedRow_CeilingShare(i) ==
    [i EXCEPT !.cooking_time =
                  i.cooking_time
                    - ((i.cooking_time + i.quantity - 1) \div i.quantity),
              !.quantity = i.quantity - 1]

\* SET cooking_time = cooking_time - (cooking_time/quantity),
\*     quantity = quantity - 1     (both from the row's old values)
DecreasedRow(i) ==
    [i EXCEPT !.cooking_time = i.cooking_time - (i.cooking_time \div i.quantity),
              !.quantity = i.quantity - 1]

DecreaseQuantity(ords, items, table_id, menu_id) ==
    {IF i \in RowsToDecrease(ords, items, table_id, menu_id)
     THEN DecreasedRow(i) ELSE i : i \in items}

\* the DELETE without the condition on the order of the table
DeleteItems_AnyTable(ords, items, table_id, menu_id) ==
    {i \in items : i.menu_id # menu_id}

\* DELETE FROM order_items WHERE order_id IN (..) AND menu_id = ?2
DeleteItems(ords, items, table_id, menu_id) ==
    {i \in items :
        ~(i.order_id \in OrderIdsOfTable(ords, table_id) /\ i.menu_id = menu_id)}

\* DELETE from orders WHERE id = ?; the foreign key of order_items refuses it
\* while a line refers to the order, and the handler drops the result
DeleteOrder(ords, items, order_id) ==
    IF has_items(items, order_id) THEN ords ELSE {o \in ords : o.id # order_id}

\* the cascade answering that the order is closed without deleting it
CascadeStep_KeepOrder(ords, items, table_id) ==
    LET found == get_existing_order_id(ords, table_id) IN
    IF found = {}
    THEN {[orders |-> ords, order_items |-> items,
           resp |-> Reply(500, "Failed to retrieve order ID", NoId)]}
    ELSE {IF has_items(items, order_id)
          THEN [orders |-> ords, order_items |-> items,
                resp |-> Reply(200, "Menu deleted successfully", NoId)]
          ELSE [orders |-> ords, order_items |-> items,
                resp |-> Reply(200, "Menu deleted successfully and order deleted", NoId)] :
          order_id \in found}

\* after the DELETE of the lines: look the order up again, close it when empty
CascadeStep(ords, items, table_id) ==
    LET found == get_existing_order_id(ords, table_id) IN
    IF found = {}
    THEN {[orders |-> ords, order_items |-> items,
           resp |-> Reply(500, "Failed to retrieve order ID", NoId)]}
    ELSE {IF has_items(items, order_id)
          THEN [orders |-> ords, order_items |-> items,
                resp |-> Reply(200, "Menu deleted successfully", NoId)]
          ELSE [orders |-> DeleteOrder(ords, items, order_id),
                order_items |-> items,
                resp |-> Reply(200, "Menu deleted successfully and order deleted", NoId)] :
          order_id \in found}

delete_order_item_handler(ords, items, table_id, menu_id) ==
    IF RowsToDecrease(ords, items, table_id, menu_id) # {}
    THEN {[orders |-> ords,
           order_items |-> DecreaseQuantity(ords, items, table_id, menu_id),
           resp |-> Reply(200, "Menu quantity updated successfully", NoId)]}
    ELSE CascadeStep(ords, DeleteItems(ords, items, table_id, menu_id), table_id)

(***************************************************************************)
(* list_order_handler, list_order_items_for_table_handler,                 *)
(* get_order_item_for_table_handler                                        *)
(***************************************************************************)
\* a line joined with its menu
ItemView(i, m) ==
    [id |-> i.id, menu_id |-> i.menu_id, menu_name |-> m.name,
     cooking_time |-> i.cooking_time, quantity |-> i.quantity]

\* OrderItem::list_order_items: the lines of the orders of the table, joined
\* with their menus
OrderItem_list_order_items(mns, ords, items, table_id) ==
    {ItemView(i, m) :
        <<i, m>> \in {<<x, y>> \in items \X mns :
            /\ y.id = x.menu_id
            /\ \E o \in ords : o.id = x.order_id /\ o.table_id = table_id}}

\* OrderItem::get_item: the lines of the table for the menu, joined with
\* the menu; the query may return any of them
OrderItem_get_item(mns, ords, items, table_id, menu_id) ==
    {v \in OrderItem_list_order_items(mns, ords, items, table_id) :
        v.menu_id = menu_id}

\* OrderResponse::list: every order with its lines
OrderResponse_list(mns, ords, items) ==
    {[id |-> o.id, table_id |-> o.table_id,
      items |-> OrderItem_list_order_items(mns, {o}, items, o.table_id)] :
        o \in ords}

\* a response whose body is a view of the stored rows
ViewReply(status, view) ==
    [status |-> status, body |-> "", id |-> NoId, view |-> view]

list_order_handler(ords, items) ==
    {[orders |-> ords, order_items |-> items,
      resp |-> ViewReply(200, OrderResponse_list(menus, ords, items))]}

list_order_items_for_table_handler(ords, items, table_id) ==
    {[orders |-> ords, order_items |-> items,
      resp |-> ViewReply(200,
                  OrderItem_list_order_items(menus, ords, items, table_id))]}

\* the handler answering 200 OK with an empty view when no item is found
get_order_item_for_table_handler_NoNotFound(ords, items, table_id, menu_id) ==
    LET found == OrderItem_get_item(menus, ords, items, table_id, menu_id) IN
    IF found # {}
    THEN {[orders |-> ords, order_items |-> items,
           resp |-> ViewReply(200, item)] : item \in found}
    ELSE {[orders |-> ords, order_items |-> items,
           resp |-> ViewReply(200, {})]}

get_order_item_for_table_handler(ords, items, table_id, menu_id) ==
    LET found == OrderItem_get_item(menus, ords, items, table_id, menu_id) IN
    IF found # {}
    THEN {[orders |-> ords, order_items |-> items,
           resp |-> ViewReply(200, item)] : item \in found}
    ELSE {[orders |-> ords, order_items |-> items,
           resp |-> Reply(404, "No Item Found", NoId)]}

(***************************************************************************)
(* The state machine.                                                      *)
(***************************************************************************)
NoCall == Served("none", Reply(0, "", NoId))

\* the two connections that serve requests side by side in SpecRace
Clients == {1, 2}

\* a connection that has no request to serve; a request holds the handler's
\* arguments and locals, the menu_ids its loop has still to serve (rest),
\* the branch of the order lookup it took (path), whether it dropped the
\* error of a storage call (dropped), and its response
Idle ==
    [op |-> "none", pc |-> "idle", table_id |-> NoId, menu_ids |-> <<>>,
     rest |-> <<>>, order_id |-> NoId, item_id |-> NoId, path |-> "none",
     dropped |-> FALSE, resp |-> Reply(0, "", NoId)]

NoRequests == [c \in Clients |-> Idle]

\* setup_test_db: the four tables exist and are empty
InitEmpty ==
    /\ tables = {}
    /\ menus = {}
    /\ orders = {}
    /\ order_items = {}
    /\ last = NoCall
    /\ requests = NoRequests

\* setup_test_db, then setup_static_data
Init ==
    /\ tables = {[id |-> n, code |-> StaticTables[n]] : n \in DOMAIN StaticTables}
    /\ menus = {[id |-> n, name |-> StaticMenus[n]] : n \in DOMAIN StaticMenus}
    /\ orders = {}
    /\ order_items = {}
    /\ last = NoCall
    /\ requests = NoRequests

RECURSIVE Units(_)
Units(items) ==
    IF items = {} THEN 0
    ELSE LET i == CHOOSE x \in items : TRUE IN i.quantity + Units(items \ {i})

WithinBounds(ords, items) ==
    /\ \A o \in ords : o.id <= MaxRowid
    /\ \A i \in items : i.id <= MaxRowid
    /\ Units(items) <= MaxUnits

CreateTable ==
    \E code \in Codes : \E out \in create_table_handler(tables, code) :
        /\ tables' = out.tables
        /\ last' = Served("create_table", out.resp)
        /\ UNCHANGED <<menus, orders, order_items, requests>>

CreateMenu ==
    \E name \in Names : \E out \in create_menu_handler(menus, name) :
        /\ menus' = out.menus
        /\ last' = Served("create_menu", out.resp)
        /\ UNCHANGED <<tables, orders, order_items, requests>>

CreateOrder ==
    \E table_id \in TableIds, menu_ids \in MenuIdLists :
        \E out \in create_order_handler(orders, order_items, table_id, menu_ids) :
            /\ WithinBounds(out.orders, out.order_items)
            /\ orders' = out.orders
            /\ order_items' = out.order_items
            /\ last' = Served("create_order", out.resp)
            /\ UNCHANGED <<tables, menus, requests>>

DeleteOrderItem ==
    \E table_id \in TableIds, menu_id \in MenuIds :
        \E out \in delete_order_item_handler(orders, order_items, table_id, menu_id) :
            /\ orders' = out.orders
            /\ order_items' = out.order_items
            /\ last' = Served("delete_order_item", out.resp)
            /\ UNCHANGED <<tables, menus, requests>>

\* the order lifecycle over the static catalog
Next == CreateOrder \/ DeleteOrderItem

Spec == Init /\ [][Next]_vars

\* registration of tables and menus from the empty database
NextCatalog == CreateTable \/ CreateMenu

SpecCatalog == InitEmpty /\ [][NextCatalog]_vars

(***************************************************************************)
(* The order lifecycle together with the read operations.                  *)
(***************************************************************************)
ListOrder ==
    \E out \in list_order_handler(orders, order_items) :
        /\ orders' = out.orders
        /\ order_items' = out.order_items
        /\ last' = Served("list_order", out.resp)
        /\ UNCHANGED <<tables, menus, requests>>

ListOrderItemsForTable ==
    \E table_id \in TableIds :
        \E out \in list_order_items_for_table_handler(orders, order_items,
                                                      table_id) :
            /\ orders' = out.orders
            /\ order_items' = out.order_items
            /\ last' = Served("list_order_items_for_table", out.resp)
            /\ UNCHANGED <<tables, menus, requests>>

GetOrderItemForTable ==
    \E table_id \in TableIds, menu_id \in MenuIds :
        \E out \in get_order_item_for_table_handler(orders, order_items,
                                                    table_id, menu_id) :
            /\ orders' = out.orders
            /\ order_items' = out.order_items
            /\ last' = Served("get_order_item_for_table", out.resp)
            /\ UNCHANGED <<tables, menus, requests>>

NextQuery ==
    \/ CreateOrder
    \/ DeleteOrderItem
    \/ ListOrder
    \/ ListOrderItemsForTable
    \/ GetOrderItemForTable

SpecQuery == Init /\ [][NextQuery]_vars

(***************************************************************************)
(* The life of the lines of one menu: table 1 and menu 1 only, with every  *)
(* cooking time of the estimator's range.                                  *)
(***************************************************************************)
\* most units the order of the one-menu runs may hold
MaxLineUnits == 3

\* the lists that name menu 1 only
OneMenuLists == {l \in MenuIdLists : \A k \in DOMAIN l : l[k] = 1}

\* setup_static_data, then the first request create_order_handler(1, [1]),
\* its cooking time any value of gen_range(5..=15)
InitOneMenu ==
    /\ tables = {[id |-> n, code |-> StaticTables[n]] : n \in DOMAIN StaticTables}
    /\ menus = {[id |-> n, name |-> StaticMenus[n]] : n \in DOMAIN StaticMenus}
    /\ \E cooking_time \in CookingTimeRange :
        LET made == OrderResponse_create(tables, {}, 1)
            line == OrderItem_create(menus, made.orders, {}, made.id, 1,
                                     cooking_time)
        IN /\ orders = made.orders
           /\ order_items = line.order_items
           /\ last = Served("create_order",
                  Reply(201, "Order and All Order Item Created Successfully",
                        made.id))
    /\ requests = NoRequests

CreateOrderOneMenu ==
    \E menu_ids \in OneMenuLists :
        \E out \in create_order_handler(orders, order_items, 1, menu_ids) :
            /\ Units(out.order_items) <= MaxLineUnits
            /\ orders' = out.orders
            /\ order_items' = out.order_items
            /\ last' = Served("create_order", out.resp)
            /\ UNCHANGED <<tables, menus, requests>>

DeleteOrderItemOneMenu ==
    \E out \in delete_order_item_handler(orders, order_items, 1, 1) :
        /\ orders' = out.orders
        /\ order_items' = out.order_items
        /\ last' = Served("delete_order_item", out.resp)
        /\ UNCHANGED <<tables, menus, requests>>

NextOneMenu == CreateOrderOneMenu \/ DeleteOrderItemOneMenu

SpecOneMenu == InitOneMenu /\ [][NextOneMenu]_vars

(***************************************************************************)
(* Two requests served side by side: every storage call of a handler is    *)
(* one step, and the steps of the two requests interleave freely (no       *)
(* transaction spans the calls of a handler).                              *)
(***************************************************************************)
\* longest menu_ids list of a request of the race
MaxRaceItems == 1

\* the requests of the race address table 1 and the menus 1 and 2
RaceTable == 1
RaceMenus == {1, 2}
RaceLists == UNION {[1..n -> RaceMenus] : n \in 1..MaxRaceItems}

\* the request served before the two of the race arrive
Before == 0

Done(r, resp) == [r EXCEPT !.pc = "done", !.resp = resp]

\* the database when the two requests arrive: empty, or as one
\* create_order_handler call for the table has left it (served |-> the
\* request of that call)
RaceStarts ==
    {[orders |-> {}, order_items |-> {}, served |-> Idle]} \cup
    UNION {{[orders |-> out.orders, order_items |-> out.order_items,
             served |-> Done([Idle EXCEPT !.op = "create_order",
                                          !.table_id = RaceTable,
                                          !.menu_ids = <<menu_id>>,
                                          !.order_id = out.resp.id,
                                          !.path = "new"],
                             out.resp)] :
               out \in create_order_handler({}, {}, RaceTable, <<menu_id>>)} :
           menu_id \in RaceMenus}

InitRace ==
    /\ tables = {[id |-> n, code |-> StaticTables[n]] : n \in DOMAIN StaticTables}
    /\ menus = {[id |-> n, name |-> StaticMenus[n]] : n \in DOMAIN StaticMenus}
    /\ \E start \in RaceStarts :
        /\ orders = start.orders
        /\ order_items = start.order_items
        /\ requests = [c \in {Before} \cup Clients |->
                          IF c = Before THEN start.served ELSE Idle]
    /\ last = NoCall

\* the request of connection c moves on to r
Moves(c, r) == requests' = [requests EXCEPT ![c] = r]

\* create_order_handler is called: the check of an empty menu_ids
ReceiveCreateOrder(c) ==
    /\ requests[c].pc = "idle"
    /\ \E menu_ids \in RaceLists :
        LET r == [Idle EXCEPT !.op = "create_order", !.table_id = RaceTable,
                              !.menu_ids = menu_ids, !.rest = menu_ids]
        IN IF Len(menu_ids) = 0
           THEN Moves(c, Done(r, Reply(400, "Please Add Items", NoId)))
           ELSE Moves(c, [r EXCEPT !.pc = "get_existing_order_id"])
    /\ UNCHANGED <<tables, menus, orders, order_items, last>>

\* OrderResponse::get_existing_order_id(&conn, table_id)
GetExistingOrderId(c) ==
    LET r == requests[c]
        found == get_existing_order_id(orders, r.table_id)
    IN /\ r.pc = "get_existing_order_id"
       /\ IF found # {}
          THEN \E order_id \in found :
                  Moves(c, [r EXCEPT !.order_id = order_id, !.path = "existing",
                                     !.pc = "get_existing_order_item_id"])
          ELSE Moves(c, [r EXCEPT !.path = "new", !.pc = "create_order"])
       /\ UNCHANGED <<tables, menus, orders, order_items, last>>

\* OrderResponse::create(&conn, table_id)
CreateOrderRow(c) ==
    LET r == requests[c]
        made == OrderResponse_create(tables, orders, r.table_id)
    IN /\ r.pc = "create_order"
       /\ orders' = made.orders
       /\ IF made.ok
          THEN Moves(c, [r EXCEPT !.order_id = made.id, !.pc = "create_new_item"])
          ELSE Moves(c, Done(r, Reply(500, "Error creating order " \o made.err,
                                      NoId)))
       /\ UNCHANGED <<tables, menus, order_items, last>>

\* the loop of the new order: OrderItem::create(&conn, last_inserted_id, ..)
CreateNewOrderItem(c) ==
    LET r == requests[c] IN
    /\ r.pc = "create_new_item"
    /\ \E cooking_time \in CookingTimes :
        LET made == OrderItem_create(menus, orders, order_items, r.order_id,
                                     Head(r.rest), cooking_time)
        IN /\ order_items' = made.order_items
           /\ IF ~made.ok
              THEN Moves(c, Done(r, Reply(500, "Error creating order Item", NoId)))
              ELSE IF Tail(r.rest) = <<>>
              THEN Moves(c, Done([r EXCEPT !.rest = <<>>],
                       Reply(201, "Order and All Order Item Created Successfully",
                             r.order_id)))
              ELSE Moves(c, [r EXCEPT !.rest = Tail(r.rest)])
    /\ UNCHANGED <<tables, menus, orders, last>>

\* the next round of the loop over the running order, or its end
NextRound(r) ==
    IF Tail(r.rest) = <<>>
    THEN Done([r EXCEPT !.rest = <<>>, !.item_id = NoId],
              Reply(200, "All order items updated successfully", NoId))
    ELSE [r EXCEPT !.rest = Tail(r.rest), !.item_id = NoId,
                   !.pc = "get_existing_order_item_id"]

\* OrderItem::get_existing_order_item_id(&conn, order_id, menu_id)
GetExistingOrderItemId(c) ==
    LET r == requests[c]
        found == get_existing_order_item_id(order_items, r.order_id, Head(r.rest))
    IN /\ r.pc = "get_existing_order_item_id"
       /\ IF found # {}
          THEN \E item_id \in found :
                  Moves(c, [r EXCEPT !.item_id = item_id, !.pc = "add_quantity"])
          ELSE Moves(c, [r EXCEPT !.pc = "create_item"])
       /\ UNCHANGED <<tables, menus, orders, order_items, last>>

\* OrderItem::add_quantity_of_existing_order_item(&conn, order_item_id); an
\* UPDATE that finds the row gone changes nothing and is Ok
AddQuantity(c) ==
    LET r == requests[c] IN
    /\ r.pc = "add_quantity"
    /\ order_items' = add_quantity_of_existing_order_item(order_items, r.item_id)
    /\ Moves(c, NextRound(r))
    /\ UNCHANGED <<tables, menus, orders, last>>

\* the loop of the running order: OrderItem::create(&conn, order_id, ..)
CreateOrderItem(c) ==
    LET r == requests[c] IN
    /\ r.pc = "create_item"
    /\ \E cooking_time \in CookingTimes :
        LET made == OrderItem_create(menus, orders, order_items, r.order_id,
                                     Head(r.rest), cooking_time)
        IN /\ order_items' = made.order_items
           /\ IF made.ok
              THEN Moves(c, NextRound(r))
              ELSE Moves(c, Done(r, Reply(500, "Error creating order Item", NoId)))
    /\ UNCHANGED <<tables, menus, orders, last>>

\* delete_order_item_handler is called
ReceiveDeleteOrderItem(c) ==
    /\ requests[c].pc = "idle"
    /\ \E menu_id \in RaceMenus :
        Moves(c, [Idle EXCEPT !.op = "delete_order_item", !.table_id = RaceTable,
                              !.menu_ids = <<menu_id>>, !.pc = "update"])
    /\ UNCHANGED <<tables, menus, orders, order_items, last>>

\* UPDATE order_items SET .. WHERE .. quantity > 1
UpdateQuantity(c) ==
    LET r == requests[c] IN
    /\ r.pc = "update"
    /\ IF RowsToDecrease(orders, order_items, r.table_id, r.menu_ids[1]) # {}
       THEN /\ order_items' = DecreaseQuantity(orders, order_items, r.table_id,
                                                r.menu_ids[1])
            /\ Moves(c, Done(r, Reply(200, "Menu quantity updated successfully",
                                      NoId)))
       ELSE /\ order_items' = order_items
            /\ Moves(c, [r EXCEPT !.pc = "delete_items"])
    /\ UNCHANGED <<tables, menus, orders, last>>

\* DELETE FROM order_items WHERE ..
DeleteOrderItems(c) ==
    LET r == requests[c] IN
    /\ r.pc = "delete_items"
    /\ order_items' = DeleteItems(orders, order_items, r.table_id, r.menu_ids[1])
    /\ Moves(c, [r EXCEPT !.pc = "order_id_result"])
    /\ UNCHANGED <<tables, menus, orders, last>>

\* let order_id_result = OrderResponse::get_existing_order_id(&conn, table_id)
OrderIdResult(c) ==
    LET r == requests[c]
        found == get_existing_order_id(orders, r.table_id)
    IN /\ r.pc = "order_id_result"
       /\ IF found # {}
          THEN \E order_id \in found :
                  Moves(c, [r EXCEPT !.order_id = order_id, !.pc = "has_items"])
          ELSE Moves(c, Done(r, Reply(500, "Failed to retrieve order ID", NoId)))
       /\ UNCHANGED <<tables, menus, orders, order_items, last>>

\* let has_items = OrderResponse::has_items(&conn, order_id)
HasItems(c) ==
    LET r == requests[c] IN
    /\ r.pc = "has_items"
    /\ IF has_items(order_items, r.order_id)
       THEN Moves(c, Done(r, Reply(200, "Menu deleted successfully", NoId)))
       ELSE Moves(c, [r EXCEPT !.pc = "delete_order"])
    /\ UNCHANGED <<tables, menus, orders, order_items, last>>

\* let _ = conn.execute("DELETE from orders WHERE id = ?", ..): the result of
\* the statement is dropped and the answer is the same whether it failed or not
DeleteOrderRow(c) ==
    LET r == requests[c] IN
    /\ r.pc = "delete_order"
    /\ orders' = DeleteOrder(orders, order_items, r.order_id)
    /\ Moves(c, Done([r EXCEPT !.dropped = has_items(order_items, r.order_id)],
                     Reply(200, "Menu deleted successfully and order deleted",
                           NoId)))
    /\ UNCHANGED <<tables, menus, order_items, last>>

NextRace ==
    \E c \in Clients :
        \/ ReceiveCreateOrder(c)
        \/ GetExistingOrderId(c)
        \/ CreateOrderRow(c)
        \/ CreateNewOrderItem(c)
        \/ GetExistingOrderItemId(c)
        \/ AddQuantity(c)
        \/ CreateOrderItem(c)
        \/ ReceiveDeleteOrderItem(c)
        \/ UpdateQuantity(c)
        \/ DeleteOrderItems(c)
        \/ OrderIdResult(c)
        \/ HasItems(c)
        \/ DeleteOrderRow(c)

SpecRace == InitRace /\ [][NextRace]_vars

(***************************************************************************)
(* Vocabulary of the properties.                                           *)
(***************************************************************************)
\* the outcomes of Submit and of RemoveOneUnit in the current state
Submit(table_id, menu_ids) ==
    create_order_handler(orders, order_items, table_id, menu_ids)

RemoveOneUnit(table_id, menu_id) ==
    delete_order_item_handler(orders, order_items, table_id, menu_id)

OrdersOf(ords, table_id) == {o \in ords : o.table_id = table_id}

LinesOfTable(ords, items, table_id) ==
    {i \in items : \E o \in OrdersOf(ords, table_id) : o.id = i.order_id}

LinesOf(ords, items, table_id, menu_id) ==
    {i \in LinesOfTable(ords, items, table_id) : i.menu_id = menu_id}

Succeeded(resp) == resp.status \in {200, 201}

QuantityReduced == Reply(200, "Menu quantity updated successfully", NoId)
ItemRemoved == Reply(200, "Menu deleted successfully", NoId)
ItemRemovedAndOrderClosed ==
    Reply(200, "Menu deleted successfully and order deleted", NoId)
InvalidRequest == Reply(400, "Please Add Items", NoId)
ForeignKeyFailure ==
    Reply(500, "Error creating order FOREIGN KEY constraint failed", NoId)
UniqueFailure ==
    Reply(500, "Error creating order UNIQUE constraint failed: orders.table_id", NoId)

NonEmptyLists == MenuIdLists \ {<<>>}

(***************************************************************************)
(* C1  At most one order per table.                                        *)
(***************************************************************************)
C1_State ==
    \A table_id \in TableIds :
        /\ Cardinality(OrdersOf(orders, table_id)) <= 1
        /\ \A menu_ids \in MenuIdLists : \A out \in Submit(table_id, menu_ids) :
            /\ Cardinality(OrdersOf(out.orders, table_id)) <= 1
            /\ OrdersOf(orders, table_id) # {} =>
                  /\ out.orders = orders
                  /\ out.resp # UniqueFailure

\* C1: in every state no two orders have the same table_id, and a Submit
\* inserts an order only when the table has none: on a table with an open
\* order it leaves the orders as they are and never runs into the
\* uniqueness constraint of orders.table_id.
C1_OneOrderPerTable == []C1_State

\* a Submit extended the one open order of table 1
C1_Witness ==
    /\ last.op = "create_order"
    /\ last.resp.status = 200
    /\ Cardinality(OrdersOf(orders, 1)) = 1
    /\ \E i \in LinesOfTable(orders, order_items, 1) : i.quantity = 2

(***************************************************************************)
(* C2  One line per (order, menu).                                         *)
(***************************************************************************)
\* C2: a menu submitted twice for a table, in one Submit or in two, is held
\* by a single line of the table's order (with quantity 2), never by two
\* rows.
C2_OneLinePerMenu ==
    \A table_id \in TableIds, menu_id \in MenuIds :
        Cardinality(LinesOf(orders, order_items, table_id, menu_id)) <= 1

(***************************************************************************)
(* C3  The decrement.                                                      *)
(***************************************************************************)
C3_State ==
    \A table_id \in TableIds, menu_id \in MenuIds :
        \A out \in RemoveOneUnit(table_id, menu_id) :
            \A i \in LinesOf(orders, order_items, table_id, menu_id) :
                i.quantity > 1 =>
                    /\ out.resp = QuantityReduced
                    /\ out.orders = orders
                    /\ \E j \in out.order_items :
                        /\ j.id = i.id
                        /\ j.order_id = i.order_id
                        /\ j.menu_id = i.menu_id
                        /\ j.quantity = i.quantity - 1
                        /\ j.cooking_time * i.quantity >=
                              i.cooking_time * (i.quantity - 1)
                        /\ j.cooking_time * i.quantity <
                              i.cooking_time * (i.quantity - 1) + i.quantity
                    /\ Cardinality({j \in out.order_items : j.id = i.id}) = 1

\* C3: RemoveOneUnit on a line with quantity q > 1 and cooking time c keeps
\* the line, with quantity q - 1 and cooking time c - floor(c / q) (the
\* integer c' with c * (q - 1) <= c' * q < c * (q - 1) + q), and answers
\* QuantityReduced.
C3_DecrementOneUnit == []C3_State

\* a line of quantity 2 and cooking time 6 was reduced to quantity 1 and 3
C3_Witness ==
    /\ last.op = "delete_order_item"
    /\ last.resp = QuantityReduced
    /\ \E i \in order_items : i.quantity = 1 /\ i.cooking_time = 3

(***************************************************************************)
(* C4  Cascade deletion.                                                   *)
(***************************************************************************)
C4_State ==
    \A table_id \in TableIds, menu_id \in MenuIds :
        \A out \in RemoveOneUnit(table_id, menu_id) :
            (/\ OrdersOf(orders, table_id) # {}
             /\ \E i \in order_items :
                 /\ LinesOfTable(orders, order_items, table_id) = {i}
                 /\ i.menu_id = menu_id
                 /\ i.quantity = 1)
            => /\ out.resp = ItemRemovedAndOrderClosed
               /\ LinesOfTable(orders, out.order_items, table_id) = {}
               /\ OrdersOf(out.orders, table_id) = {}
               /\ get_existing_order_id(out.orders, table_id) = {}

\* C4: when the open order of a table has exactly one line and the line has
\* quantity 1, RemoveOneUnit for it deletes the line and the order, answers
\* ItemRemovedAndOrderClosed, and the lookup of the table's open order finds
\* none afterwards.
C4_CascadeDeletion == []C4_State

\* the last line of the order was removed and the order is gone
C4_Witness ==
    /\ last.op = "delete_order_item"
    /\ last.resp = ItemRemovedAndOrderClosed
    /\ orders = {}
    /\ order_items = {}

(***************************************************************************)
(* C5  Removal of one of several lines.                                    *)
(***************************************************************************)
\* C5: when the open order of a table has two or more lines and
\* RemoveOneUnit removes one of them (a line of quantity 1), the order still
\* exists, every other line is unchanged and the answer is ItemRemoved.
C5_NonCascade ==
    \A table_id \in TableIds, menu_id \in MenuIds :
        \A out \in RemoveOneUnit(table_id, menu_id) :
            (/\ Cardinality(LinesOfTable(orders, order_items, table_id)) >= 2
             /\ LinesOf(orders, order_items, table_id, menu_id) # {}
             /\ \A i \in LinesOf(orders, order_items, table_id, menu_id) :
                    i.quantity = 1)
            => /\ out.resp = ItemRemoved
               /\ out.orders = orders
               /\ \E i \in LinesOf(orders, order_items, table_id, menu_id) :
                      out.order_items = order_items \ {i}

(***************************************************************************)
(* C6  Removal of a line that does not exist.                              *)
(***************************************************************************)
\* C6: RemoveOneUnit for a table and menu without a matching line answers
\* NotFound (404) and leaves every order and every line unchanged.
C6_RemoveNothing ==
    \A table_id \in TableIds, menu_id \in MenuIds :
        \A out \in RemoveOneUnit(table_id, menu_id) :
            LinesOf(orders, order_items, table_id, menu_id) = {} =>
                /\ out.resp.status = 404
                /\ out.orders = orders
                /\ out.order_items = order_items

(***************************************************************************)
(* C7  The empty submission.                                               *)
(***************************************************************************)
C7_State ==
    \A table_id \in TableIds : \A out \in Submit(table_id, <<>>) :
        /\ out.resp = InvalidRequest
        /\ out.orders = orders
        /\ out.order_items = order_items

\* C7: Submit with an empty menu_ids answers InvalidRequest ("Please Add
\* Items") and leaves every order and line unchanged, whether the table
\* exists or not and whether it has an open order or not.
C7_EmptySubmissionRejected == []C7_State

\* an empty submission was rejected while table 1 had an open order
C7_Witness ==
    /\ last.op = "create_order"
    /\ last.resp = InvalidRequest
    /\ OrdersOf(orders, 1) # {}

(***************************************************************************)
(* C8  Submit for a table that does not exist.                             *)
(***************************************************************************)
C8_State ==
    \A table_id \in TableIds, menu_ids \in NonEmptyLists :
        \A out \in Submit(table_id, menu_ids) :
            (\A t \in tables : t.id # table_id) =>
                /\ out.resp = ForeignKeyFailure
                /\ out.orders = orders
                /\ out.order_items = order_items

\* C8: a Submit for a table_id of no row of tables fails with the foreign
\* key violation reported to the caller and creates no order and no line.
C8_UnknownTableRejected == []C8_State

\* a Submit for the unknown table failed while table 1 had its order
C8_Witness ==
    /\ last.op = "create_order"
    /\ last.resp = ForeignKeyFailure
    /\ order_items # {}

(***************************************************************************)
(* C9  Retry after a failed Submit.                                        *)
(***************************************************************************)
\* the rows of a (order, menu) pair
PairRows(items, order_id, menu_id) ==
    {i \in items : i.order_id = order_id /\ i.menu_id = menu_id}

C9_State ==
    \A table_id \in TableIds, menu_ids \in NonEmptyLists :
        \A failed \in Submit(table_id, menu_ids) :
            failed.resp.status = 500 =>
                \A retry \in create_order_handler(failed.orders,
                                failed.order_items, table_id, menu_ids) :
                    /\ retry.orders = failed.orders
                    /\ Cardinality(OrdersOf(retry.orders, table_id)) <= 1
                    /\ \A i \in failed.order_items :
                        /\ {j.id : j \in PairRows(retry.order_items,
                                                  i.order_id, i.menu_id)}
                             = {j.id : j \in PairRows(failed.order_items,
                                                      i.order_id, i.menu_id)}
                        /\ \E j \in retry.order_items :
                            /\ j.id = i.id
                            /\ j.cooking_time = i.cooking_time
                            /\ j.quantity >= i.quantity

\* C9: when a Submit has failed and is invoked again with the same table
\* and list, the retry creates no second order for the table and no further
\* row for any (order, menu) pair that already has one: the rows of such a
\* pair stay the same rows, with quantities that only grow.
C9_RetryMerges == []C9_State

\* a Submit failed after its first item was merged into the line left by
\* the failed attempt before it
C9_Witness ==
    /\ last.op = "create_order"
    /\ last.resp = Reply(500, "Error creating order Item", NoId)
    /\ Cardinality(order_items) = 1
    /\ \E i \in order_items : i.quantity = 2

C10_State ==
    \A table_id \in TableIds, menu_ids \in MenuIdLists :
        \A out \in Submit(table_id, menu_ids) :
            Succeeded(out.resp) =>
                \/ /\ OrdersOf(orders, table_id) = {}
                   /\ out.resp.status = 201
                   /\ out.resp.id \in get_existing_order_id(out.orders, table_id)
                \/ /\ OrdersOf(orders, table_id) # {}
                   /\ out.resp.status = 200
                   /\ out.resp.id = NoId
                   /\ out.orders = orders

C11_DeletePathAtQuantityOne ==
    /\ \A i \in order_items : i.quantity >= 1
    /\ \A table_id \in TableIds, menu_id \in MenuIds :
        \A out \in RemoveOneUnit(table_id, menu_id) :
            /\ \A j \in out.order_items : j.quantity >= 1
            /\ (\E i \in LinesOf(orders, order_items, table_id, menu_id) :
                    i.quantity = 1)
               => /\ out.resp \in {ItemRemoved, ItemRemovedAndOrderClosed}
                  /\ LinesOf(orders, out.order_items, table_id, menu_id) = {}

(***************************************************************************)
(* C12  A failure in the loop over an existing order.                      *)
(***************************************************************************)
\* the units the table's order holds of a menu
Quantity(ords, items, table_id, menu_id) ==
    Units(LinesOf(ords, items, table_id, menu_id))

\* how often the menu occurs among the first n entries of the list
Occurrences(menu_ids, n, menu_id) ==
    Cardinality({k \in 1..n : menu_ids[k] = menu_id})

\* the entries of the list that refer to no menu
UnknownEntries(menu_ids) ==
    {k \in DOMAIN menu_ids : \A m \in menus : m.id # menu_ids[k]}

ItemFailure == Reply(500, "Error creating order Item", NoId)

C12_State ==
    \A table_id \in TableIds, menu_ids \in NonEmptyLists :
        \A out \in Submit(table_id, menu_ids) :
            (OrdersOf(orders, table_id) # {} /\ UnknownEntries(menu_ids) # {})
            => LET i == CHOOSE k \in UnknownEntries(menu_ids) :
                            \A n \in UnknownEntries(menu_ids) : k <= n
               IN /\ out.resp = ItemFailure
                  /\ out.orders = orders
                  /\ \A menu_id \in MenuIds :
                        Quantity(out.orders, out.order_items, table_id, menu_id)
                          = Quantity(orders, order_items, table_id, menu_id)
                              + Occurrences(menu_ids, i - 1, menu_id)
                  /\ \A l \in order_items : \E j \in out.order_items :
                        /\ j.id = l.id
                        /\ j.quantity >= l.quantity

\* C12: when the storage refuses the i-th item of a Submit on a table with
\* an open order (the item names no menu), the Submit is answered as failed,
\* the units of items 1..i-1 are in the order (nothing is rolled back) and
\* no unit of the items after i is added.
C12_FailureKeepsEarlierItems == []C12_State

\* a Submit on the open order of table 1 failed at its second item after
\* its first item had been merged into the line of menu 2
C12_Witness ==
    /\ last.op = "create_order"
    /\ last.resp = ItemFailure
    /\ Quantity(orders, order_items, 1, 2) = 2
    /\ \E out \in Submit(1, <<1, 9>>) :
        out.resp = ItemFailure /\ out.order_items # order_items

(***************************************************************************)
(* C13  A failure in the loop over a new order.                            *)
(***************************************************************************)
C13_State ==
    \A table_id \in TableIds, menu_ids \in NonEmptyLists :
        \A out \in Submit(table_id, menu_ids) :
            (/\ OrdersOf(orders, table_id) = {}
             /\ \E t \in tables : t.id = table_id
             /\ UnknownEntries(menu_ids) # {})
            => LET i == CHOOSE k \in UnknownEntries(menu_ids) :
                            \A n \in UnknownEntries(menu_ids) : k <= n
                   lines == LinesOfTable(out.orders, out.order_items, table_id)
               IN /\ out.resp = ItemFailure
                  /\ \E o \in out.orders :
                        /\ o \notin orders
                        /\ o.table_id = table_id
                        /\ out.orders = orders \cup {o}
                        /\ \A l \in lines : l.order_id = o.id
                  /\ out.order_items = order_items \cup lines
                  /\ Cardinality(lines) = i - 1
                  /\ \A l \in lines :
                        /\ l.quantity = 1
                        /\ l.cooking_time \in CookingTimeRange
                  /\ \A menu_id \in MenuIds :
                        Quantity(out.orders, out.order_items, table_id, menu_id)
                          = Occurrences(menu_ids, i - 1, menu_id)

\* C13: when a Submit for a table without an open order creates the order
\* and the storage then refuses its i-th line (the item names no menu), the
\* Submit is answered as failed and the new order stays, together with the
\* i - 1 lines created before the failure.
C13_NewOrderPersistsOnFailure == []C13_State

\* the Submit that created the order of table 1 failed at its second item:
\* the order is there with the one line of its first item
C13_Witness ==
    /\ last.op = "create_order"
    /\ last.resp = ItemFailure
    /\ Cardinality(OrdersOf(orders, 1)) = 1
    /\ Cardinality(order_items) = 1
    /\ \A l \in order_items : l.quantity = 1 /\ l.id = 1

(***************************************************************************)
(* C14  Storage errors of RemoveOneUnit reach the caller.                  *)
(***************************************************************************)
\* the requests of the race that have been answered
Answered(c) == requests[c].pc = "done"

\* C14: a RemoveOneUnit in which a storage call failed is answered as
\* failed: it answers ItemRemovedAndOrderClosed only when the DELETE of the
\* order went through, and a refused DELETE of the order gives a failure.
C14_RemoveReportsStorageErrors ==
    \A c \in Clients :
        (Answered(c) /\ requests[c].op = "delete_order_item") =>
            /\ requests[c].dropped => ~Succeeded(requests[c].resp)
            /\ requests[c].resp = ItemRemovedAndOrderClosed =>
                  ~requests[c].dropped

(***************************************************************************)
(* C15  Two Submits racing to create the order of a table.                 *)
(***************************************************************************)
\* both requests are Submits that looked for the order of the table before
\* either had created it
BothSawNoOrder(c, d) ==
    /\ c # d
    /\ requests[c].op = "create_order" /\ requests[c].path = "new"
    /\ requests[d].op = "create_order" /\ requests[d].path = "new"

C15_State ==
    /\ \A t \in tables : Cardinality(OrdersOf(orders, t.id)) <= 1
    /\ \A c, d \in Clients :
        (BothSawNoOrder(c, d) /\ Answered(c) /\ Answered(d)) =>
            \/ requests[c].resp = UniqueFailure /\ requests[d].resp.status = 201
            \/ requests[d].resp = UniqueFailure /\ requests[c].resp.status = 201

\* C15: with UNIQUE (table_id) on orders, in every state of every
\* interleaving of two Submits for a table without an open order the table
\* has at most one order, and of two Submits that both found no order one
\* creates it and the other is answered with the failure of its insert.
C15_RaceCreatesOneOrder == []C15_State

\* both Submits found no order; one created it, the other was refused
C15_Witness ==
    /\ BothSawNoOrder(1, 2)
    /\ Answered(1) /\ Answered(2)
    /\ requests[1].resp.status = 201
    /\ requests[2].resp = UniqueFailure
    /\ Cardinality(OrdersOf(orders, RaceTable)) = 1

(***************************************************************************)
(* C16  The read operations.                                               *)
(***************************************************************************)
GetItemForTable(table_id, menu_id) ==
    get_order_item_for_table_handler(orders, order_items, table_id, menu_id)

NotFound == Reply(404, "No Item Found", NoId)

\* the response shows the line
Shows(resp, i) ==
    /\ resp.status = 200
    /\ resp.view.id = i.id
    /\ resp.view.menu_id = i.menu_id
    /\ resp.view.quantity = i.quantity
    /\ resp.view.cooking_time = i.cooking_time
    /\ \E m \in menus : m.id = i.menu_id /\ m.name = resp.view.menu_name

C16_State ==
    /\ \A table_id \in TableIds, menu_id \in MenuIds :
        \A out \in GetItemForTable(table_id, menu_id) :
            /\ out.orders = orders
            /\ out.order_items = order_items
            /\ IF LinesOf(orders, order_items, table_id, menu_id) # {}
               THEN \E i \in LinesOf(orders, order_items, table_id, menu_id) :
                       Shows(out.resp, i)
               ELSE out.resp = NotFound
    /\ \A table_id \in TableIds :
        \A out \in list_order_items_for_table_handler(orders, order_items,
                                                      table_id) :
            /\ out.orders = orders
            /\ out.order_items = order_items
            /\ {v.id : v \in out.resp.view}
                 = {i.id : i \in LinesOfTable(orders, order_items, table_id)}
    /\ \A out \in list_order_handler(orders, order_items) :
        /\ out.orders = orders
        /\ out.order_items = order_items
        /\ {v.id : v \in out.resp.view} = {o.id : o \in orders}

\* every step of a read operation leaves the four tables as they are
ReadsChangeNothing ==
    (last'.op \in {"list_order", "list_order_items_for_table",
                   "get_order_item_for_table"})
    => UNCHANGED <<tables, menus, orders, order_items>>

\* C16: GetItemForTable(table_id, menu_id) answers with the joined view of
\* a line exactly when the open order of the table has a line for the menu,
\* and NotFound otherwise; it, the listing of a table's items and the
\* listing of the orders change no table, menu, order or line.
C16_ReadsReflectState == [](C16_State) /\ [][ReadsChangeNothing]_vars

\* the item of menu 2 was read from the order of table 1 that holds lines
\* of the menus 1 and 2
C16_Witness ==
    /\ last.op = "get_order_item_for_table"
    /\ last.resp.status = 200
    /\ last.resp.view.menu_name = "M-02"
    /\ Cardinality(LinesOfTable(orders, order_items, 1)) = 2
    /\ GetItemForTable(1, 9) = {[orders |-> orders, order_items |-> order_items,
                                 resp |-> NotFound]}

(***************************************************************************)
(* C17  Two Submits racing to create the line of a menu.                   *)
(***************************************************************************)
\* both requests are Submits that found the open order of the table
BothExtendOrder(c, d) ==
    /\ c # d
    /\ requests[c].op = "create_order" /\ requests[c].path = "existing"
    /\ requests[d].op = "create_order" /\ requests[d].path = "existing"

\* C17: when two Submits for a table with an open order, both naming a menu
\* the order has no line for, have been served side by side, the order has
\* at most one line for every menu: the later request found the line of the
\* earlier one and raised its quantity.
C17_RaceKeepsOneLinePerMenu ==
    \A c, d \in Clients :
        (BothExtendOrder(c, d) /\ Answered(c) /\ Answered(d)) =>
            \A o \in orders, menu_id \in RaceMenus :
                Cardinality(PairRows(order_items, o.id, menu_id)) <= 1

(***************************************************************************)
(* C18  A Submit racing the removal of the last line.                      *)
(***************************************************************************)
\* request d is a RemoveOneUnit for the one line the order of the table had
\* when the race began, answered as having removed it
RemovedLastLine(d) ==
    /\ requests[Before].op = "create_order"
    /\ requests[d].op = "delete_order_item"
    /\ requests[d].menu_ids = requests[Before].menu_ids
    /\ Answered(d)
    /\ requests[d].resp \in {ItemRemoved, ItemRemovedAndOrderClosed}

\* C18: when a RemoveOneUnit that removes the last line of a table and a
\* Submit for the table have been served side by side and the Submit was
\* answered as successful, every unit the Submit added is in an order of
\* the table that exists: the order of the table holds of every menu at
\* least the units the Submit named.
C18_RaceKeepsSubmittedUnits ==
    \A c, d \in Clients :
        (/\ RemovedLastLine(d)
         /\ requests[c].op = "create_order"
         /\ Answered(c)
         /\ Succeeded(requests[c].resp))
        => \A menu_id \in RaceMenus :
              Quantity(orders, order_items, RaceTable, menu_id)
                >= Occurrences(requests[c].menu_ids, Len(requests[c].menu_ids),
                               menu_id)

(***************************************************************************)
(* C19  The merge into an existing line.                                   *)
(***************************************************************************)
AllUpdated == Reply(200, "All order items updated successfully", NoId)

C19_State ==
    \A table_id \in TableIds :
        /\ \A menu_id \in MenuIds : \A out \in Submit(table_id, <<menu_id>>) :
            LinesOf(orders, order_items, table_id, menu_id) # {} =>
                /\ out.resp = AllUpdated
                /\ out.orders = orders
                /\ \E i \in LinesOf(orders, order_items, table_id, menu_id) :
                      out.order_items = (order_items \ {i}) \cup
                          {[i EXCEPT !.quantity = i.quantity + 1]}
        /\ \A menu_ids \in NonEmptyLists : \A out \in Submit(table_id, menu_ids) :
            \A i \in LinesOfTable(orders, order_items, table_id) :
                \E j \in out.order_items :
                    /\ j.id = i.id
                    /\ j.cooking_time = i.cooking_time
                    /\ j.quantity >= i.quantity
                    /\ j.quantity - i.quantity
                         <= Occurrences(menu_ids, Len(menu_ids), i.menu_id)

\* C19: a Submit of a menu the open order of the table has a line for
\* raises the quantity of that line by exactly 1 and changes nothing else;
\* no Submit changes the cooking time of a line that exists, whatever the
\* estimator drew.
C19_MergeKeepsCookingTime == []C19_State

\* a Submit raised a line to quantity 2 and the line still has the cooking
\* time 15 it was created with; one more Submit would raise it to 3
C19_Witness ==
    /\ last.op = "create_order"
    /\ last.resp = AllUpdated
    /\ \E i \in LinesOfTable(orders, order_items, 1) :
        /\ i.quantity = 2
        /\ i.cooking_time = MaxCookingTime
        /\ \E out \in Submit(1, <<i.menu_id>>) :
            [i EXCEPT !.quantity = 3] \in out.order_items

(***************************************************************************)
(* C20  The range of the cooking time.                                     *)
(***************************************************************************)
C20_State ==
    /\ \A i \in order_items :
        /\ i.cooking_time \in 1..MaxCookingTime
        /\ i.quantity >= 1
    /\ \A table_id \in TableIds, menu_ids \in MenuIdLists :
        \A out \in Submit(table_id, menu_ids) :
            \A j \in out.order_items :
                \/ \E i \in order_items :
                      i.id = j.id /\ i.cooking_time = j.cooking_time
                \/ /\ j.cooking_time \in CookingTimeRange
                   /\ j.quantity \in
                        1..Occurrences(menu_ids, Len(menu_ids), j.menu_id)
    /\ \A table_id \in TableIds, menu_id \in MenuIds :
        \A out \in RemoveOneUnit(table_id, menu_id) :
            \A j \in out.order_items : \E i \in order_items :
                /\ i.id = j.id
                /\ j.cooking_time \in 1..i.cooking_time

\* C20: after any run of Submit and RemoveOneUnit calls every line has a
\* cooking time from 1 to 15: a Submit creates a line with quantity 1 (one
\* unit for every time the list names the menu) and a cooking time of the
\* range 5..15 and changes no other cooking time, and a
\* RemoveOneUnit leaves every line it keeps with a cooking time of at least
\* 1 and at most what it was.
C20_CookingTimeInRange == []C20_State

\* units were added and removed until the cooking time of the line came
\* down to 1, its second unit still there
C20_Witness ==
    /\ last.op = "create_order"
    /\ \E i \in order_items :
        /\ i.cooking_time = 1
        /\ i.quantity = 2
        /\ \A out \in RemoveOneUnit(1, i.menu_id) :
            [i EXCEPT !.quantity = 1] \in out.order_items

(***************************************************************************)
(* C21  Quantity conservation on Submit.                                   *)
(***************************************************************************)
C21_State ==
    \A table_id \in TableIds, menu_ids \in NonEmptyLists :
        \A out \in Submit(table_id, menu_ids) :
            /\ ((\E t \in tables : t.id = table_id)
                    /\ UnknownEntries(menu_ids) = {})
               => Succeeded(out.resp)
            /\ Succeeded(out.resp) =>
                \A menu_id \in MenuIds :
                    Quantity(out.orders, out.order_items, table_id, menu_id)
                      = Quantity(orders, order_items, table_id, menu_id)
                          + Occurrences(menu_ids, Len(menu_ids), menu_id)

\* C21: a Submit for a table that exists with a list of menus that exist
\* succeeds, and after a successful Submit the order of the table holds of
\* every menu the units it held before plus one for every time the list
\* names the menu; the menus the list does not name keep their units.
C21_SubmitConservesQuantity == []C21_State

\* a Submit of the menus 1 and 2 created the order of table 1 with one unit
\* of each; a Submit of menu 2 twice would raise its units to 3
C21_Witness ==
    /\ last.op = "create_order"
    /\ last.resp.status = 201
    /\ Quantity(orders, order_items, 1, 1) = 1
    /\ Quantity(orders, order_items, 1, 2) = 1
    /\ \A out \in Submit(1, <<2, 2>>) :
        Quantity(out.orders, out.order_items, 1, 2) = 3

(***************************************************************************)
(* C22  Closing an order unit by unit.                                     *)
(***************************************************************************)
\* C22: every RemoveOneUnit for a line that is present removes exactly one
\* unit of the order; while units remain after it the order stays and the
\* answer is not ItemRemovedAndOrderClosed, and the call that removes the
\* last unit deletes the order and answers ItemRemovedAndOrderClosed.  An
\* order of N units is so closed by exactly the N-th call.
C22_UnitByUnitClosing ==
    \A table_id \in TableIds, menu_id \in MenuIds :
        \A out \in RemoveOneUnit(table_id, menu_id) :
            LinesOf(orders, order_items, table_id, menu_id) # {} =>
                LET before == Units(LinesOfTable(orders, order_items, table_id))
                    after == Units(LinesOfTable(orders, out.order_items,
                                                table_id))
                IN /\ after = before - 1
                   /\ before > 1 =>
                        /\ OrdersOf(out.orders, table_id) # {}
                        /\ out.resp \in {QuantityReduced, ItemRemoved}
                   /\ before = 1 =>
                        /\ OrdersOf(out.orders, table_id) = {}
                        /\ out.resp = ItemRemovedAndOrderClosed

(***************************************************************************)
(* C23  No line outlives its order.                                        *)
(***************************************************************************)
C23_State ==
    \A i \in order_items : \E o \in orders : o.id = i.order_id

\* C23: in every reachable state, the states between the statements of two
\* interleaved requests included, the order_id of every order item is the id
\* of an order row: no delete of an order leaves lines behind it, and no line
\* is inserted for an order that is gone.
C23_NoLineWithoutOrder == []C23_State

\* a Submit looked the order up, a RemoveOneUnit then removed the last line and
\* the order, and the insert of the Submit for the order that is gone was
\* refused
C23_Witness ==
    \E c, d \in Clients :
        /\ requests[c].op = "create_order"
        /\ requests[c].path = "existing"
        /\ Answered(c)
        /\ requests[c].resp = ItemFailure
        /\ requests[d].op = "delete_order_item"
        /\ Answered(d)
        /\ requests[d].resp = ItemRemovedAndOrderClosed
        /\ ~requests[d].dropped
        /\ orders = {}
        /\ order_items = {}

(***************************************************************************)
(* C24  No empty order is left behind.                                     *)
(***************************************************************************)
NoEmptyOrder(ords, items) == \A o \in ords : has_items(items, o.id)

StorageError(resp) == resp.status = 500

C24_State ==
    /\ last = NoCall => NoEmptyOrder(orders, order_items)
    /\ NoEmptyOrder(orders, order_items) =>
        /\ \A table_id \in TableIds, menu_ids \in MenuIdLists :
              \A out \in Submit(table_id, menu_ids) :
                  ~StorageError(out.resp) =>
                      NoEmptyOrder(out.orders, out.order_items)
        /\ \A table_id \in TableIds, menu_id \in MenuIds :
              \A out \in RemoveOneUnit(table_id, menu_id) :
                  ~StorageError(out.resp) =>
                      NoEmptyOrder(out.orders, out.order_items)

\* C24: no order is without lines before the first request, and a Submit or
\* a RemoveOneUnit that answers without a storage error (no 500) in a state
\* where every order has a line leaves every order with a line.  In a run of
\* requests served one after the other, none with a storage error, every
\* order that exists between two requests so has at least one order item.
C24_NoEmptyOrderWithoutError == []C24_State

\* between two requests of a run without errors: a RemoveOneUnit has removed
\* one of the two lines of the order, and the order is there with the other
C24_Witness ==
    /\ last.op = "delete_order_item"
    /\ last.resp = ItemRemoved
    /\ orders # {}
    /\ NoEmptyOrder(orders, order_items)
    /\ \E out \in RemoveOneUnit(1, 2) :
          out.resp = ItemRemovedAndOrderClosed /\ out.orders = {}

(***************************************************************************)
(* The order lifecycle on two tables of the static catalog.                *)
(***************************************************************************)
MaxFrameItems == 1
MaxFrameUnits == 2
MaxFrameRowid == 2

FrameTables == {1, 2}
FrameMenus == {1, 2}
FrameLists == UNION {[1..n -> FrameMenus] : n \in 1..MaxFrameItems}

\* the draws of gen_range(5..=15) followed on two tables
FrameCookingTimes == {MinCookingTime}

CreateOrderTwoTables ==
    \E table_id \in FrameTables, menu_ids \in FrameLists :
        \E out \in create_order_handler(orders, order_items, table_id, menu_ids) :
            /\ \A o \in out.orders : o.id <= MaxFrameRowid
            /\ \A i \in out.order_items : i.id <= MaxFrameRowid
            /\ Units(out.order_items) <= MaxFrameUnits
            /\ \A i \in out.order_items \ order_items :
                  i.cooking_time \in FrameCookingTimes \/ i.quantity > 1
            /\ orders' = out.orders
            /\ order_items' = out.order_items
            /\ last' = Served("create_order", out.resp)
            /\ UNCHANGED <<tables, menus, requests>>

DeleteOrderItemTwoTables ==
    \E table_id \in FrameTables, menu_id \in FrameMenus :
        \E out \in delete_order_item_handler(orders, order_items, table_id, menu_id) :
            /\ orders' = out.orders
            /\ order_items' = out.order_items
            /\ last' = Served("delete_order_item", out.resp)
            /\ UNCHANGED <<tables, menus, requests>>

NextTwoTables == CreateOrderTwoTables \/ DeleteOrderItemTwoTables

SpecTwoTables == Init /\ [][NextTwoTables]_vars

(***************************************************************************)
(* C25  What a request leaves alone.                                       *)
(***************************************************************************)
OtherOrders(ords, table_id) == {o \in ords : o.table_id # table_id}

\* the lines of the orders that other tables have in the current state
OtherLines(items, table_id) ==
    {i \in items : \E o \in OtherOrders(orders, table_id) : o.id = i.order_id}

\* the lines of the table's current order for other menus
OtherMenuLines(items, table_id, menu_id) ==
    {i \in items : /\ i.menu_id # menu_id
                   /\ \E o \in OrdersOf(orders, table_id) : o.id = i.order_id}

C25_State ==
    /\ \A table_id \in FrameTables \cup TableIds, menu_ids \in MenuIdLists :
          \A out \in Submit(table_id, menu_ids) :
              /\ OtherOrders(out.orders, table_id) = OtherOrders(orders, table_id)
              /\ OtherLines(out.order_items, table_id)
                   = OtherLines(order_items, table_id)
    /\ \A table_id \in FrameTables \cup TableIds, menu_id \in MenuIds :
          \A out \in RemoveOneUnit(table_id, menu_id) :
              /\ OtherOrders(out.orders, table_id) = OtherOrders(orders, table_id)
              /\ OtherLines(out.order_items, table_id)
                   = OtherLines(order_items, table_id)
              /\ OtherMenuLines(out.order_items, table_id, menu_id)
                   = OtherMenuLines(order_items, table_id, menu_id)

\* C25: a Submit for table t and a RemoveOneUnit for (t, m) leave every order
\* of another table and every line of such an order as they were, a
\* RemoveOneUnit also every line of t's order for a menu other than m, and no
\* step of either request changes a row of tables or of menus.
C25_LeavesTheRestAlone ==
    /\ []C25_State
    /\ [][tables' = tables /\ menus' = menus]_vars

\* a RemoveOneUnit has removed the only line of table 1 and closed its order
\* while table 2 has an order with a line, which is still there
C25_Witness ==
    /\ last.op = "delete_order_item"
    /\ last.resp = ItemRemovedAndOrderClosed
    /\ OrdersOf(orders, 1) = {}
    /\ OrdersOf(orders, 2) # {}
    /\ LinesOfTable(orders, order_items, 2) # {}

(***************************************************************************)
(* C26  Registration of tables and menus is get-or-create.                 *)
(***************************************************************************)
C26_State ==
    /\ \A code \in Codes : \A out \in create_table_handler(tables, code) :
          /\ out.resp.status = 201
          /\ (\E t \in tables : t.code = code) =>
                /\ out.tables = tables
                /\ \E t \in tables : t.code = code /\ t.id = out.resp.id
          /\ (\A t \in tables : t.code # code) =>
                /\ out.tables = tables \cup {[id |-> out.resp.id, code |-> code]}
                /\ \A t \in tables : t.id # out.resp.id
          /\ tables = {} => out.resp.id = 1
    /\ \A name \in Names : \A out \in create_menu_handler(menus, name) :
          /\ out.resp.status = 201
          /\ (\E m \in menus : m.name = name) =>
                /\ out.menus = menus
                /\ \E m \in menus : m.name = name /\ m.id = out.resp.id
          /\ (\A m \in menus : m.name # name) =>
                /\ out.menus = menus \cup {[id |-> out.resp.id, name |-> name]}
                /\ \A m \in menus : m.id # out.resp.id
          /\ menus = {} => out.resp.id = 1
    /\ \A t1, t2 \in tables : t1.code = t2.code => t1 = t2
    /\ \A m1, m2 \in menus : m1.name = m2.name => m1 = m2

\* C26: creating a table whose code, or a menu whose name, is already stored
\* answers 201 with the id of the stored row and inserts nothing; creating a
\* new one inserts one row and answers 201 with its id, which is 1 in an
\* empty store; after any sequence of create calls no two tables have the
\* same code and no two menus the same name.
C26_GetOrCreate == []C26_State

\* a menu was created again after another one: the answer carries the id of
\* the first row, and both catalogs hold the rows of distinct keys only
C26_Witness ==
    /\ last.op = "create_menu"
    /\ last.resp = Reply(201, "", 1)
    /\ Cardinality(menus) = 2
    /\ Cardinality(tables) = 2
    /\ \E code \in Codes : \E out \in create_table_handler(tables, code) :
          out.tables = tables /\ out.resp.id = 2

====
